---- MODULE Spec2Model ----
(***************************************************************************)
(* Model of the JSON-file backed configuration store of src/src/lib.rs:    *)
(* Store::new / get / set / has / delete / reset over a serde_json Value   *)
(* tree, an optional compiled JSON Schema and one backing file.            *)
(*                                                                         *)
(* Strings (paths, member names, file contents) are sequences of one-      *)
(* character strings, so that str::split, serialization and parsing are    *)
(* computed rather than assumed.                                           *)
(***************************************************************************)
EXTENDS Integers, Sequences, FiniteSets, TLC

VARIABLES
    file,     \* content of the config.json the stores point at, or Absent
    store,    \* instance -> [state, schema, config, path]
    last,     \* the call that has just returned: its inputs, its result, the state before it
    writer    \* the instance whose set or delete wrote the file last, 0 if none has

vars == <<file, store, last, writer>>

-----------------------------------------------------------------------------
(* Bounds of the model *)

\* longest key path (in characters) handed to get / has / set / delete
MaxPathLen == 3

\* the characters key paths are made of
PathChars == {"a", "i", "."}

RECURSIVE SeqsUpTo(_, _)
SeqsUpTo(S, n) ==
    IF n = 0 THEN {<<>>}
    ELSE LET shorter == SeqsUpTo(S, n - 1)
         IN  shorter \cup {Append(s, c) : s \in shorter, c \in S}

PathSet == SeqsUpTo(PathChars, MaxPathLen)

-----------------------------------------------------------------------------
(* serde_json::Value *)

Null == [t |-> "null"]
Num(n) == [t |-> "num", n |-> n]
Str(s) == [t |-> "str", s |-> s]
Arr(a) == [t |-> "arr", a |-> a]
Obj(m) == [t |-> "obj", m |-> m]

\* a map with no members
EmptyMap == [k \in {} |-> Null]

\* Option::None of the accessors below
None == [t |-> "none"]

\* ValueGet with the fault of indexing, value[key], which yields Null where
\* there is no such member
ValueIndex(v, key) ==
    IF v.t = "obj" THEN (IF key \in DOMAIN v.m THEN v.m[key] ELSE Null) ELSE None

\* Value::get(&str) / Value::get_mut(&str): indexing by a string yields a
\* member of an object and None for every other kind of value
ValueGet(v, key) ==
    IF v.t = "obj" /\ key \in DOMAIN v.m THEN v.m[key] ELSE None

\* MapRemove with the fault of removing nothing
MapRemoveNothing(m, key) == m

\* Map::remove_entry(key) on the map of an object
MapRemove(m, key) == [k \in (DOMAIN m) \ {key} |-> m[k]]

\* MapPut with the fault of assigning to every member of the object
MapPutAll(m, key, v) == [k \in DOMAIN m |-> v]

\* assignment through the &mut Value obtained from get_mut(key)
MapPut(m, key, v) == [k \in DOMAIN m |-> IF k = key THEN v ELSE m[k]]

-----------------------------------------------------------------------------
(* str::split(".") *)

RECURSIVE SplitFrom(_, _, _)
\* segments of s[i..], cur being the segment read so far
SplitFrom(s, i, cur) ==
    IF i > Len(s) THEN <<cur>>
    ELSE IF s[i] = "." THEN <<cur>> \o SplitFrom(s, i + 1, <<>>)
    ELSE SplitFrom(s, i + 1, Append(cur, s[i]))

Split(s) == SplitFrom(s, 1, <<>>)

-----------------------------------------------------------------------------
(* The traversal loops of get, has, set and delete *)

\* a panic raised by unwrap() / expect() / panic!()
Panic == [t |-> "panic"]

RECURSIVE GetLoop(_, _)
\* Store::get, the for loop: the node reached from cur along segs, or None
\* at the first segment that current_value.get(key) does not resolve
GetLoop(cur, segs) ==
    IF segs = <<>> THEN cur
    ELSE LET v == ValueGet(cur, Head(segs))
         IN  IF v.t = "none" THEN None ELSE GetLoop(v, Tail(segs))

RECURSIVE HasLoop(_, _)
\* Store::has, the for loop: FALSE at the first segment that does not resolve
HasLoop(cur, segs) ==
    IF segs = <<>> THEN TRUE
    ELSE LET v == ValueGet(cur, Head(segs))
         IN  IF v.t = "none" THEN FALSE ELSE HasLoop(v, Tail(segs))

RECURSIVE SetLoop(_, _, _)
\* Store::set on the clone: descend with get_mut along segs, then
\* *current_value = value.  Yields cur with the addressed node overwritten,
\* or None when a segment does not resolve
SetLoop(cur, segs, value) ==
    IF segs = <<>> THEN value
    ELSE LET v == ValueGet(cur, Head(segs))
         IN  IF v.t = "none" THEN None
             ELSE LET sub == SetLoop(v, Tail(segs), value)
                  IN  IF sub.t = "none" THEN None
                      ELSE Obj(MapPut(cur.m, Head(segs), sub))

RECURSIVE DeleteLoop(_, _)
\* Store::delete on the clone: descend with get_mut to the parent of the last
\* segment, then as_object_mut().unwrap().remove_entry(key).  Yields cur with
\* the member removed, None when a segment or the member does not resolve,
\* Panic when the parent is not an object
DeleteLoop(cur, segs) ==
    IF Len(segs) = 1
    THEN IF cur.t # "obj" THEN Panic
         ELSE IF Head(segs) \in DOMAIN cur.m
              THEN Obj(MapRemove(cur.m, Head(segs)))
              ELSE None
    ELSE LET v == ValueGet(cur, Head(segs))
         IN  IF v.t = "none" THEN None
             ELSE LET sub == DeleteLoop(v, Tail(segs))
                  IN  IF sub.t \in {"none", "panic"} THEN sub
                      ELSE Obj(MapPut(cur.m, Head(segs), sub))

-----------------------------------------------------------------------------
(* jsonschema::JSONSchema: the compiled validator, for the schema keywords *)
(* type, properties, required and minimum                                  *)

\* {} : every instance is valid
SchemaAny == [k |-> "any"]
\* {"type": "integer", "minimum": min}
SchemaInt(min) == [k |-> "int", min |-> min]
\* {"type": "object", "properties": props, "required": req}
SchemaObj(props, req) == [k |-> "obj", props |-> props, req |-> req]

RECURSIVE IsValid(_, _)
\* JSONSchema::is_valid(&instance)
IsValid(schema, v) ==
    CASE schema.k = "any" -> TRUE
      [] schema.k = "int" -> v.t = "num" /\ v.n >= schema.min
      [] schema.k = "obj" ->
            /\ v.t = "obj"
            /\ schema.req \subseteq DOMAIN v.m
            /\ \A key \in (DOMAIN schema.props) \cap (DOMAIN v.m) :
                   IsValid(schema.props[key], v.m[key])

\* default_config(schema): the fixed string "value"
default_config(schema) == Str(<<"v", "a", "l", "u", "e">>)

-----------------------------------------------------------------------------
(* serde_json::to_string_pretty *)

Quote == "\""
NewLine == "\n"
DigitChars == <<"0", "1", "2", "3", "4", "5", "6", "7", "8", "9">>

\* the characters of the model in the order of their byte values
ByteOrder ==
    <<NewLine, " ", Quote, ",", "-", ".",
      "0", "1", "2", "3", "4", "5", "6", "7", "8", "9", ":",
      "[", "]", "a", "e", "i", "l", "n", "u", "v", "{", "}">>

ByteRank(c) == CHOOSE r \in 1..Len(ByteOrder) : ByteOrder[r] = c

RECURSIVE StrLess(_, _)
\* the order of String, by bytes: the order a BTreeMap keeps its keys in
StrLess(x, y) ==
    IF y = <<>> THEN FALSE
    ELSE IF x = <<>> THEN TRUE
    ELSE IF Head(x) = Head(y) THEN StrLess(Tail(x), Tail(y))
    ELSE ByteRank(Head(x)) < ByteRank(Head(y))

RECURSIVE SortedKeys(_)
\* the keys of a Map in iteration order
SortedKeys(S) ==
    IF S = {} THEN <<>>
    ELSE LET least == CHOOSE x \in S : \A y \in S \ {x} : StrLess(x, y)
         IN  <<least>> \o SortedKeys(S \ {least})

\* Digits with the fault of writing the last digit only
DigitsLowOnly(n) == <<DigitChars[(n % 10) + 1]>>

RECURSIVE Digits(_)
\* decimal digits of a natural number
Digits(n) ==
    IF n < 10 THEN <<DigitChars[n + 1]>>
    ELSE Digits(n \div 10) \o <<DigitChars[(n % 10) + 1]>>

RECURSIVE Spaces(_)
Spaces(n) == IF n = 0 THEN <<>> ELSE <<" ">> \o Spaces(n - 1)

\* PrettyFormatter: two spaces per nesting level
Indent(depth) == Spaces(2 * depth)

RECURSIVE Pretty(_, _), PrettyElems(_, _, _), PrettyMembers(_, _, _)
\* the text of v at nesting level depth
Pretty(v, depth) ==
    CASE v.t = "null" -> <<"n", "u", "l", "l">>
      [] v.t = "num" -> IF v.n < 0 THEN <<"-">> \o Digits(0 - v.n) ELSE Digits(v.n)
      [] v.t = "str" -> <<Quote>> \o v.s \o <<Quote>>
      [] v.t = "arr" ->
            IF v.a = <<>> THEN <<"[", "]">>
            ELSE <<"[">> \o PrettyElems(v.a, 1, depth + 1)
                         \o <<NewLine>> \o Indent(depth) \o <<"]">>
      [] v.t = "obj" ->
            IF DOMAIN v.m = {} THEN <<"{", "}">>
            ELSE <<"{">> \o PrettyMembers(v.m, SortedKeys(DOMAIN v.m), depth + 1)
                         \o <<NewLine>> \o Indent(depth) \o <<"}">>

\* elements a[i..], each on a line of its own
PrettyElems(a, i, depth) ==
    IF i > Len(a) THEN <<>>
    ELSE (IF i = 1 THEN <<>> ELSE <<",">>) \o <<NewLine>> \o Indent(depth)
         \o Pretty(a[i], depth) \o PrettyElems(a, i + 1, depth)

\* members of m under the keys still to write, each on a line of its own
PrettyMembers(m, keys, depth) ==
    IF keys = <<>> THEN <<>>
    ELSE (IF Len(keys) = Cardinality(DOMAIN m) THEN <<>> ELSE <<",">>)
         \o <<NewLine>> \o Indent(depth)
         \o <<Quote>> \o Head(keys) \o <<Quote, ":", " ">>
         \o Pretty(m[Head(keys)], depth)
         \o PrettyMembers(m, Tail(keys), depth)

to_string_pretty(v) == Pretty(v, 0)

-----------------------------------------------------------------------------
(* serde_json::from_reader *)

\* Err(serde_json::Error)
JsonErr == [t |-> "err"]

ParseFail == [ok |-> FALSE]
Parsed(v, i) == [ok |-> TRUE, v |-> v, i |-> i]

IsWs(c) == c \in {" ", NewLine, "\t", "\r"}
IsDigit(c) == \E d \in 1..Len(DigitChars) : DigitChars[d] = c
DigitVal(c) == (CHOOSE d \in 1..Len(DigitChars) : DigitChars[d] = c) - 1

\* Map::insert: a repeated key keeps the later value
MapInsert(m, key, v) ==
    [k \in (DOMAIN m) \cup {key} |-> IF k = key THEN v ELSE m[k]]

RECURSIVE SkipWs(_, _)
SkipWs(s, i) == IF i <= Len(s) /\ IsWs(s[i]) THEN SkipWs(s, i + 1) ELSE i

RECURSIVE ReadDigits(_, _, _)
ReadDigits(s, i, acc) ==
    IF i <= Len(s) /\ IsDigit(s[i])
    THEN ReadDigits(s, i + 1, acc * 10 + DigitVal(s[i]))
    ELSE [n |-> acc, i |-> i]

\* an integer: an optional minus sign, then digits with no leading zero
ParseNumber(s, i) ==
    LET neg == s[i] = "-"
        j == IF neg THEN i + 1 ELSE i
    IN  IF j > Len(s) \/ ~IsDigit(s[j]) THEN ParseFail
        ELSE IF s[j] = "0" /\ j + 1 <= Len(s) /\ IsDigit(s[j + 1]) THEN ParseFail
        ELSE LET r == ReadDigits(s, j, 0)
             IN  Parsed(Num(IF neg THEN 0 - r.n ELSE r.n), r.i)

RECURSIVE ReadString(_, _, _)
\* the characters from s[i] up to the closing quote
ReadString(s, i, acc) ==
    IF i > Len(s) \/ s[i] = NewLine THEN ParseFail
    ELSE IF s[i] = Quote THEN Parsed(acc, i + 1)
    ELSE ReadString(s, i + 1, Append(acc, s[i]))

RECURSIVE ParseValue(_, _), ParseElems(_, _, _), ParseMembers(_, _, _)
\* the value that starts at or after s[i0]
ParseValue(s, i0) ==
    LET i == SkipWs(s, i0)
    IN  IF i > Len(s) THEN ParseFail
        ELSE IF s[i] = "{"
        THEN LET j == SkipWs(s, i + 1)
             IN  IF j <= Len(s) /\ s[j] = "}" THEN Parsed(Obj(EmptyMap), j + 1)
                 ELSE ParseMembers(s, j, EmptyMap)
        ELSE IF s[i] = "["
        THEN LET j == SkipWs(s, i + 1)
             IN  IF j <= Len(s) /\ s[j] = "]" THEN Parsed(Arr(<<>>), j + 1)
                 ELSE ParseElems(s, j, <<>>)
        ELSE IF s[i] = Quote
        THEN LET r == ReadString(s, i + 1, <<>>)
             IN  IF r.ok THEN Parsed(Str(r.v), r.i) ELSE ParseFail
        ELSE IF s[i] = "n"
        THEN IF i + 3 <= Len(s) /\ SubSeq(s, i, i + 3) = <<"n", "u", "l", "l">>
             THEN Parsed(Null, i + 4) ELSE ParseFail
        ELSE IF s[i] = "-" \/ IsDigit(s[i]) THEN ParseNumber(s, i)
        ELSE ParseFail

\* the elements of an array from s[i] on, a being those read so far
ParseElems(s, i, a) ==
    LET val == ParseValue(s, i)
    IN  IF ~val.ok THEN ParseFail
        ELSE LET e == SkipWs(s, val.i)
             IN  IF e > Len(s) THEN ParseFail
                 ELSE IF s[e] = "," THEN ParseElems(s, e + 1, Append(a, val.v))
                 ELSE IF s[e] = "]" THEN Parsed(Arr(Append(a, val.v)), e + 1)
                 ELSE ParseFail

\* the members of an object from s[i] on, m being those read so far
ParseMembers(s, i, m) ==
    LET j == SkipWs(s, i)
    IN  IF j > Len(s) \/ s[j] # Quote THEN ParseFail
        ELSE LET key == ReadString(s, j + 1, <<>>)
             IN  IF ~key.ok THEN ParseFail
                 ELSE LET c == SkipWs(s, key.i)
                      IN  IF c > Len(s) \/ s[c] # ":" THEN ParseFail
                          ELSE LET val == ParseValue(s, c + 1)
                               IN  IF ~val.ok THEN ParseFail
                                   ELSE LET e == SkipWs(s, val.i)
                                            m2 == MapInsert(m, key.v, val.v)
                                        IN  IF e > Len(s) THEN ParseFail
                                            ELSE IF s[e] = "," THEN ParseMembers(s, e + 1, m2)
                                            ELSE IF s[e] = "}" THEN Parsed(Obj(m2), e + 1)
                                            ELSE ParseFail

\* a whole document: one value, then nothing but whitespace
from_reader(s) ==
    LET r == ParseValue(s, 1)
    IN  IF r.ok /\ SkipWs(s, r.i) > Len(s) THEN r.v ELSE JsonErr

-----------------------------------------------------------------------------
(* The file system *)

\* no file at the config path
Absent == [exists |-> FALSE, text |-> <<>>]
FileOf(text) == [exists |-> TRUE, text |-> text]

\* PathBuf::new(), and <config dir>/config.json
EmptyPath == "no path"
ConfigPath == "config.json"

\* fs_write with the fault of appending to the file instead of truncating it
fs_write_append(path, f, text) ==
    IF path = EmptyPath THEN [ok |-> FALSE, file |-> f]
    ELSE [ok |-> TRUE, file |-> FileOf(f.text \o text)]

\* std::fs::write(path, text): the file at path holds text and nothing else;
\* no file can be created at the empty path
fs_write(path, f, text) ==
    IF path = EmptyPath THEN [ok |-> FALSE, file |-> f]
    ELSE [ok |-> TRUE, file |-> FileOf(text)]

-----------------------------------------------------------------------------
(* struct Store and its methods *)

Some(x) == [t |-> "some", x |-> x]

\* no Store constructed yet
Uninitialized ==
    [state |-> "Uninitialized", schema |-> None, config |-> Null, path |-> EmptyPath]

\* Store { path, config, schema }
Ready(path, config, schema) ==
    [state |-> "Ready", schema |-> schema, config |-> config, path |-> path]

\* Store::new with the fault of keeping a config file the schema rejects
new_keeps_invalid(f, schema_path, path_override, proj_dirs, can_open) ==
    LET panic == [result |-> "Panic",
                  self |-> [Uninitialized EXCEPT !.state = "Panicked"]]
        schema == IF schema_path.t = "none" THEN None ELSE Some(schema_path.x.s)
        config_path ==
            IF path_override = "dir" \/ (path_override = "none" /\ proj_dirs)
            THEN ConfigPath ELSE EmptyPath
    IN  IF schema_path.t = "some" /\ schema_path.x.t # "schema" THEN panic
        ELSE IF path_override = "notdir" THEN panic
        ELSE IF config_path # EmptyPath /\ f.exists
        THEN IF ~can_open THEN panic
             ELSE LET config == from_reader(f.text)
                  IN  IF config.t = "err" THEN panic
                      ELSE [result |-> "Ok", self |-> Ready(config_path, config, schema)]
        ELSE IF schema.t = "some"
        THEN [result |-> "Ok",
              self |-> Ready(config_path, default_config(schema.x), schema)]
        ELSE [result |-> "InitError",
              self |-> [Uninitialized EXCEPT !.state = "Failed"]]

\* Store::new.  schema_path is None or Some(schema file), path_override is
\* "none", "dir" (an existing directory) or "notdir", proj_dirs tells whether
\* ProjectDirs::from finds a directory, can_open whether File::open succeeds
new(f, schema_path, path_override, proj_dirs, can_open) ==
    LET panic == [result |-> "Panic",
                  self |-> [Uninitialized EXCEPT !.state = "Panicked"]]
        schema == IF schema_path.t = "none" THEN None ELSE Some(schema_path.x.s)
        config_path ==
            IF path_override = "dir" \/ (path_override = "none" /\ proj_dirs)
            THEN ConfigPath ELSE EmptyPath
    IN  IF schema_path.t = "some" /\ schema_path.x.t # "schema" THEN panic
        ELSE IF path_override = "notdir" THEN panic
        ELSE IF config_path # EmptyPath /\ f.exists
        THEN IF ~can_open THEN panic
             ELSE LET config == from_reader(f.text)
                  IN  IF config.t = "err" THEN panic
                      ELSE IF schema.t = "some"
                      THEN IF IsValid(schema.x, config)
                           THEN [result |-> "Ok",
                                 self |-> Ready(config_path, config, schema)]
                           ELSE [result |-> "Ok",
                                 self |-> Ready(config_path, default_config(schema.x), schema)]
                      ELSE [result |-> "Ok", self |-> Ready(config_path, config, schema)]
        ELSE IF schema.t = "some"
        THEN [result |-> "Ok",
              self |-> Ready(config_path, default_config(schema.x), schema)]
        ELSE [result |-> "InitError",
              self |-> [Uninitialized EXCEPT !.state = "Failed"]]

\* Store::get
get(self, keys) ==
    LET current_value == GetLoop(self.config, Split(keys))
    IN  IF current_value.t = "none"
        THEN [result |-> "InvalidKey", ret |-> None]
        ELSE [result |-> "Ok", ret |-> current_value]

\* Store::has
has(self, keys) == HasLoop(self.config, Split(keys))

\* CommitAndWrite with the fault of not asking the schema
CommitUnchecked(self, f, config, rejected) ==
    LET committed == IF self.schema.t = "some" THEN [self EXCEPT !.config = config]
                     ELSE self
    IN  [result |-> "Ok", self |-> committed,
         file |-> FileOf(to_string_pretty(committed.config))]

\* CommitAndWrite with the fault of writing the file before the swap
WriteThenCommit(self, f, config, rejected) ==
    IF self.schema.t = "some" /\ ~IsValid(self.schema.x, config)
    THEN [result |-> rejected, self |-> self, file |-> f]
    ELSE LET committed ==
                 IF self.schema.t = "some" THEN [self EXCEPT !.config = config]
                 ELSE self
             w == fs_write(self.path, f, to_string_pretty(self.config))
         IN  [result |-> "Ok", self |-> committed, file |-> w.file]

\* CommitAndWrite with the fault of writing the clone before asking the schema
WriteThenValidate(self, f, config, rejected) ==
    LET w == fs_write(self.path, f, to_string_pretty(config))
    IN  IF self.schema.t = "some" /\ ~IsValid(self.schema.x, config)
        THEN [result |-> rejected, self |-> self, file |-> w.file]
        ELSE [result |-> "Ok",
              self |-> IF self.schema.t = "some" THEN [self EXCEPT !.config = config]
                       ELSE self,
              file |-> IF self.schema.t = "some" THEN w.file
                       ELSE fs_write(self.path, f, to_string_pretty(self.config)).file]

\* CommitAndWrite with the fault of skipping the write when the tree is as
\* it was
WriteIfChanged(self, f, config, rejected) ==
    IF self.schema.t = "some" /\ ~IsValid(self.schema.x, config)
    THEN [result |-> rejected, self |-> self, file |-> f]
    ELSE LET committed ==
                 IF self.schema.t = "some" THEN [self EXCEPT !.config = config]
                 ELSE self
             w == fs_write(self.path, f, to_string_pretty(committed.config))
         IN  [result |-> "Ok", self |-> committed,
              file |-> IF committed.config = self.config THEN f ELSE w.file]

\* the tail of set and delete: swap the clone in if there is a schema and it
\* accepts the clone, then write self.config to the file
CommitAndWrite(self, f, config, rejected) ==
    IF self.schema.t = "some" /\ ~IsValid(self.schema.x, config)
    THEN [result |-> rejected, self |-> self, file |-> f]
    ELSE LET committed ==
                 IF self.schema.t = "some" THEN [self EXCEPT !.config = config]
                 ELSE self
             w == fs_write(self.path, f, to_string_pretty(committed.config))
         IN  IF w.ok THEN [result |-> "Ok", self |-> committed, file |-> w.file]
             ELSE [result |-> "Panic",
                   self |-> [committed EXCEPT !.state = "Panicked"],
                   file |-> w.file]

\* set with the fault of assigning to a temporary: the clone stays as it was
set_discards(self, f, keys, value) ==
    LET config == SetLoop(self.config, Split(keys), value)
    IN  IF config.t = "none"
        THEN [result |-> "InvalidKey", self |-> self, file |-> f]
        ELSE CommitAndWrite(self, f, self.config, "InvalidSet")

\* set with the fault of working on self.config instead of a clone
set_in_place(self, f, keys, value) ==
    LET config == SetLoop(self.config, Split(keys), value)
    IN  IF config.t = "none"
        THEN [result |-> "InvalidKey", self |-> self, file |-> f]
        ELSE CommitAndWrite([self EXCEPT !.config = config], f, config, "InvalidSet")

\* Store::set
set(self, f, keys, value) ==
    LET config == SetLoop(self.config, Split(keys), value)
    IN  IF config.t = "none"
        THEN [result |-> "InvalidKey", self |-> self, file |-> f]
        ELSE CommitAndWrite(self, f, config, "InvalidSet")

\* delete with the fault of working on self.config instead of a clone
delete_in_place(self, f, keys) ==
    LET config == DeleteLoop(self.config, Split(keys))
    IN  IF config.t = "panic"
        THEN [result |-> "Panic",
              self |-> [self EXCEPT !.state = "Panicked"], file |-> f]
        ELSE IF config.t = "none"
        THEN [result |-> "InvalidKey", self |-> self, file |-> f]
        ELSE CommitAndWrite([self EXCEPT !.config = config], f, config, "InvalidDelete")

\* Store::delete
delete(self, f, keys) ==
    LET config == DeleteLoop(self.config, Split(keys))
    IN  IF config.t = "panic"
        THEN [result |-> "Panic",
              self |-> [self EXCEPT !.state = "Panicked"], file |-> f]
        ELSE IF config.t = "none"
        THEN [result |-> "InvalidKey", self |-> self, file |-> f]
        ELSE CommitAndWrite(self, f, config, "InvalidDelete")

\* Store::reset
reset(key) == "InvalidKey"

-----------------------------------------------------------------------------
(* The inputs of the model *)

\* {"type": "object", "required": ["a"], "properties": {"a": {"type": "object",
\*  "required": ["i"], "properties": {"i": {"type": "integer", "minimum": 0}}}}}
SchemaTest ==
    SchemaObj(<<"a">> :> SchemaObj(<<"i">> :> SchemaInt(0), {<<"i">>}), {<<"a">>})

\* a schema file: one that cannot be opened, is no JSON, is no schema, or
\* compiles to a validator
SchemaFiles ==
    {[t |-> "unopenable"], [t |-> "malformed"], [t |-> "uncompilable"],
     [t |-> "schema", s |-> SchemaAny], [t |-> "schema", s |-> SchemaTest]}

\* {"a": {"i": 4}, "i": 1}
TreeValid == Obj((<<"a">> :> Obj(<<"i">> :> Num(4))) @@ (<<"i">> :> Num(1)))
\* {"a": {"i": -1}}
TreeInvalid == Obj(<<"a">> :> Obj(<<"i">> :> Num(0 - 1)))
\* {"": {"": 1}, "a": [0], "a.i": 2}
TreeOdd ==
    Obj((<<>> :> Obj(<<>> :> Num(1))) @@ (<<"a">> :> Arr(<<Num(0)>>))
        @@ (<<"a", ".", "i">> :> Num(2)))

\* the config file before the first Store is constructed: none, a file some
\* Store wrote, a file written by hand, a file that is no JSON
InitialFiles ==
    {Absent,
     FileOf(to_string_pretty(TreeValid)),
     FileOf(to_string_pretty(TreeInvalid)),
     FileOf(to_string_pretty(TreeOdd)),
     FileOf(<<"7">>),
     FileOf(<<"{", Quote, "i", Quote, ":", "1", ",",
              Quote, "a", Quote, ":", "{", Quote, "i", Quote, ":", "4", "}", "}", NewLine>>),
     FileOf(<<"{", Quote, "a", Quote, ":">>)}

\* the values handed to set
ValueSet == {Num(10), Num(0 - 10), Obj(<<"i">> :> Num(10))}

\* the Store instances of a run
Instances == {1}

-----------------------------------------------------------------------------
(* The state machine *)

\* the arguments of Store::new, and what the file system does with them
NewArgs(schema_path, path_override, proj_dirs, can_open) ==
    [schema_path |-> schema_path, path_override |-> path_override,
     proj_dirs |-> proj_dirs, can_open |-> can_open]

NoCall ==
    [inst |-> 0, op |-> "none", keys |-> <<>>, value |-> Null, result |-> "none",
     ret |-> None, found |-> FALSE, pre |-> Uninitialized, preFile |-> Absent,
     args |-> NewArgs(None, "none", FALSE, FALSE)]

Call(s, op, keys, value, result) ==
    [NoCall EXCEPT !.inst = s, !.op = op, !.keys = keys, !.value = value,
                   !.result = result, !.pre = store[s], !.preFile = file]

Init ==
    /\ file \in InitialFiles
    /\ store = [s \in Instances |-> Uninitialized]
    /\ last = NoCall
    /\ writer = 0

CallNew(s) ==
    /\ last.op = "none"
    /\ store[s].state = "Uninitialized"
    /\ \E schema_path \in {None} \cup {Some(sf) : sf \in SchemaFiles},
          path_override \in {"none", "dir", "notdir"},
          proj_dirs \in BOOLEAN, can_open \in BOOLEAN :
          LET r == new(file, schema_path, path_override, proj_dirs, can_open)
          IN  /\ store' = [store EXCEPT ![s] = r.self]
              /\ last' = [Call(s, "new", <<>>, Null, r.result) EXCEPT
                              !.args = NewArgs(schema_path, path_override,
                                               proj_dirs, can_open)]
    /\ UNCHANGED <<file, writer>>

CallGet(s) ==
    /\ last.op = "none"
    /\ store[s].state = "Ready"
    /\ \E keys \in PathSet :
          LET r == get(store[s], keys)
          IN  last' = [Call(s, "get", keys, Null, r.result) EXCEPT !.ret = r.ret]
    /\ UNCHANGED <<file, store, writer>>

CallHas(s) ==
    /\ last.op = "none"
    /\ store[s].state = "Ready"
    /\ \E keys \in PathSet :
          last' = [Call(s, "has", keys, Null, "Ok") EXCEPT
                       !.found = has(store[s], keys)]
    /\ UNCHANGED <<file, store, writer>>

CallSet(s) ==
    /\ last.op = "none"
    /\ store[s].state = "Ready"
    /\ \E keys \in PathSet, value \in ValueSet :
          LET r == set(store[s], file, keys, value)
          IN  /\ store' = [store EXCEPT ![s] = r.self]
              /\ file' = r.file
              /\ last' = Call(s, "set", keys, value, r.result)
              /\ writer' = IF r.result = "Ok" THEN s ELSE writer

CallDelete(s) ==
    /\ last.op = "none"
    /\ store[s].state = "Ready"
    /\ \E keys \in PathSet :
          LET r == delete(store[s], file, keys)
          IN  /\ store' = [store EXCEPT ![s] = r.self]
              /\ file' = r.file
              /\ last' = Call(s, "delete", keys, Null, r.result)
              /\ writer' = IF r.result = "Ok" THEN s ELSE writer

CallReset(s) ==
    /\ last.op = "none"
    /\ store[s].state = "Ready"
    /\ \E key \in {None} \cup {Some(k) : k \in PathSet} :
          last' = Call(s, "reset", IF key.t = "some" THEN key.x ELSE <<>>, Null,
                       reset(key))
    /\ UNCHANGED <<file, store, writer>>

\* the Store goes out of scope, or the process that panicked is gone
Drop(s) ==
    /\ last.op = "none"
    /\ store[s].state # "Uninitialized"
    /\ store' = [store EXCEPT ![s] = Uninitialized]
    /\ writer' = IF writer = s THEN 0 ELSE writer
    /\ UNCHANGED <<file, last>>

\* the caller has looked at the result of its call and goes on
Return ==
    /\ last.op # "none"
    /\ last' = NoCall
    /\ UNCHANGED <<file, store, writer>>

Next ==
    \/ Return
    \/ \E s \in Instances : CallNew(s)
    \/ \E s \in Instances : CallGet(s)
    \/ \E s \in Instances : CallHas(s)
    \/ \E s \in Instances : CallSet(s)
    \/ \E s \in Instances : CallDelete(s)
    \/ \E s \in Instances : CallReset(s)
    \/ \E s \in Instances : Drop(s)

Spec == Init /\ [][Next]_vars

\* two Stores of one process, or of two, constructed on the same config.json
SharedInstances == {1, 2}

\* the schemas the two Stores are constructed with
SharedSchemaPaths == {None, Some([t |-> "schema", s |-> SchemaTest])}

\* the config file the two Stores are constructed on
SharedFiles == {FileOf(to_string_pretty(TreeValid))}

\* both Stores have been constructed, each by Store::new on the file as it is
InitShared ==
    /\ file \in SharedFiles
    /\ \E sp \in [SharedInstances -> SharedSchemaPaths] :
          /\ \A s \in SharedInstances : new(file, sp[s], "dir", TRUE, TRUE).result = "Ok"
          /\ store = [s \in SharedInstances |-> new(file, sp[s], "dir", TRUE, TRUE).self]
    /\ last = NoCall
    /\ writer = 0

\* the calls of the two Stores, one at a time and in any order
NextShared ==
    \/ Return
    \/ \E s \in SharedInstances : CallSet(s)
    \/ \E s \in SharedInstances : CallDelete(s)

SpecShared == InitShared /\ [][NextShared]_vars

-----------------------------------------------------------------------------
(* Reference definitions the properties are stated with *)

RECURSIVE RefNodes(_)
\* every node of tree v with its address: the member names on the way to it
RefNodes(v) ==
    {[segs |-> <<>>, node |-> v]} \cup
    (IF v.t = "obj"
     THEN UNION {{[segs |-> <<k>> \o e.segs, node |-> e.node] : e \in RefNodes(v.m[k])}
                 : k \in DOMAIN v.m}
     ELSE {})

\* the nodes of v that the segments address: none, or one
RefAt(v, segs) == {e.node : e \in {x \in RefNodes(v) : x.segs = segs}}

RECURSIVE RefPut(_, _, _)
\* tree v with w at the address segs, for an address of v
RefPut(v, segs, w) ==
    IF segs = <<>> THEN w
    ELSE Obj([v.m EXCEPT ![Head(segs)] = RefPut(@, Tail(segs), w)])

RECURSIVE RefRemove(_, _)
\* tree v without the member at the address segs, for an address of v
RefRemove(v, segs) ==
    IF Len(segs) = 1
    THEN Obj([k \in {x \in DOMAIN v.m : x # Head(segs)} |-> v.m[k]])
    ELSE Obj([v.m EXCEPT ![Head(segs)] = RefRemove(@, Tail(segs))])

\* the Store the call in last was made on, as it is now and as it was before
Self == store[last.inst]
Pre == last.pre
Segs == Split(last.keys)
HasSchema == Pre.schema.t = "some"
Resolves == RefAt(Pre.config, Segs) # {}

-----------------------------------------------------------------------------
(* Properties *)

\* C1: in a Store with a schema, a get, has, set or delete call made while
\* the tree satisfies the schema leaves a tree that satisfies the schema,
\* whatever the call returns
C1_SchemaPreserved ==
    (/\ last.op \in {"get", "has", "set", "delete"}
     /\ HasSchema
     /\ IsValid(Pre.schema.x, Pre.config))
    => /\ Self.schema = Pre.schema
       /\ IsValid(Self.schema.x, Self.config)

\* a set or a delete has replaced a schema-valid tree by another one
C1_Witness ==
    /\ last.op \in {"set", "delete"}
    /\ HasSchema
    /\ Pre.schema.x = SchemaTest
    /\ IsValid(Pre.schema.x, Pre.config)
    /\ last.result = "Ok"
    /\ Self.config # Pre.config

\* C2: in a Store with a schema, set(p, v) on an existing path p, where the
\* tree with v at p satisfies the schema, returns Ok, and get(p) then
\* returns v
C2_SetThenGet ==
    (/\ last.op = "set"
     /\ HasSchema
     /\ Resolves
     /\ IsValid(Pre.schema.x, RefPut(Pre.config, Segs, last.value)))
    => /\ last.result = "Ok"
       /\ get(Self, last.keys) = [result |-> "Ok", ret |-> last.value]

\* a set under the test schema has put a new value at a nested path
C2_Witness ==
    /\ last.op = "set"
    /\ HasSchema
    /\ Pre.schema.x = SchemaTest
    /\ Len(Segs) = 2
    /\ last.result = "Ok"
    /\ RefAt(Pre.config, Segs) # {last.value}
    /\ RefAt(Self.config, Segs) = {last.value}

\* C3: in a Store with no schema, set(p, v) that returns Ok leaves the
\* modified clone as the tree, so that get(p) returns v, and delete(p) that
\* returns Ok leaves has(p) false
C3_NoSchemaCommits ==
    (/\ last.op \in {"set", "delete"}
     /\ ~HasSchema
     /\ last.result = "Ok")
    => IF last.op = "set"
       THEN /\ Self.config = RefPut(Pre.config, Segs, last.value)
            /\ get(Self, last.keys) = [result |-> "Ok", ret |-> last.value]
       ELSE ~has(Self, last.keys)

\* C4: set(p, v) on an existing path p, where the tree with v at p violates
\* the schema, returns InvalidSet, leaves the tree as it was, and get(p)
\* returns what it returned before
C4_InvalidSetRollsBack ==
    (/\ last.op = "set"
     /\ HasSchema
     /\ Resolves
     /\ ~IsValid(Pre.schema.x, RefPut(Pre.config, Segs, last.value)))
    => /\ last.result = "InvalidSet"
       /\ Self = Pre
       /\ get(Self, last.keys).result = "Ok"
       /\ RefAt(Pre.config, Segs) = {get(Self, last.keys).ret}

\* a set of a valid tree has been rejected by the schema
C4_Witness ==
    /\ last.op = "set"
    /\ HasSchema
    /\ IsValid(Pre.schema.x, Pre.config)
    /\ Resolves
    /\ last.result = "InvalidSet"
    /\ RefAt(Pre.config, Segs) # {last.value}

\* C5: delete(p) of an existing member whose removal violates the schema
\* returns InvalidDelete, leaves the tree as it was, and has(p) is still true
C5_InvalidDeleteRollsBack ==
    (/\ last.op = "delete"
     /\ HasSchema
     /\ Resolves
     /\ ~IsValid(Pre.schema.x, RefRemove(Pre.config, Segs)))
    => /\ last.result = "InvalidDelete"
       /\ Self = Pre
       /\ has(Self, last.keys)

\* a delete of a member the schema requires has been rejected
C5_Witness ==
    /\ last.op = "delete"
    /\ HasSchema
    /\ IsValid(Pre.schema.x, Pre.config)
    /\ Resolves
    /\ last.result = "InvalidDelete"

\* C6: delete(p) of an existing member whose removal keeps the tree valid
\* under the schema returns Ok, has(p) is false afterwards, and the file the
\* call wrote is a document without that member
C6_DeleteRemoves ==
    (/\ last.op = "delete"
     /\ HasSchema
     /\ Resolves
     /\ IsValid(Pre.schema.x, RefRemove(Pre.config, Segs)))
    => /\ last.result = "Ok"
       /\ ~has(Self, last.keys)
       /\ file.exists
       /\ from_reader(file.text).t # "err"
       /\ RefAt(from_reader(file.text), Segs) = {}

\* a delete under the test schema has removed a member and rewritten the file
C6_Witness ==
    /\ last.op = "delete"
    /\ HasSchema
    /\ Pre.schema.x = SchemaTest
    /\ Resolves
    /\ last.result = "Ok"
    /\ file # last.preFile
    /\ RefAt(from_reader(last.preFile.text), Segs) # {}

\* C7: after a set or a delete has returned Ok, with or without a schema,
\* the file holds the serialization of the tree the Store now has, and
\* nothing else
C7_FileIsTree ==
    (/\ last.op \in {"set", "delete"}
     /\ last.result = "Ok")
    => file = FileOf(to_string_pretty(Self.config))

\* a set or a delete has returned Ok, changed the tree and replaced the
\* content of the file
C7_Witness ==
    /\ last.op \in {"set", "delete"}
    /\ last.result = "Ok"
    /\ last.preFile.exists
    /\ Self.config # Pre.config
    /\ file # last.preFile

\* C8: after new has returned Ok, the file exists and holds the tree of the
\* Store
C8_NewFileIsTree ==
    (/\ last.op = "new"
     /\ last.result = "Ok")
    => /\ file.exists
       /\ from_reader(file.text) = Self.config

\* C9: after new has returned Ok with a schema, the Store is Ready and its
\* tree satisfies the schema
C9_NewTreeValid ==
    (/\ last.op = "new"
     /\ last.result = "Ok"
     /\ Self.schema.t = "some")
    => /\ Self.state = "Ready"
       /\ IsValid(Self.schema.x, Self.config)

C11_NeverCreates ==
    (/\ last.op \in {"set", "delete"}
     /\ ~Resolves)
    => /\ last.result = "InvalidKey"
       /\ Self.config = Pre.config

\* the config file new looks for exists: new has a directory to look in and
\* config.json is there
C12_FileExists ==
    /\ last.args.path_override = "dir"
       \/ (last.args.path_override = "none" /\ last.args.proj_dirs)
    /\ last.preFile.exists

\* new was given what it can read: no schema file or one that compiles, no
\* override or an existing directory, and a config file that, if it exists,
\* opens and is JSON
C12_Usable ==
    /\ last.op = "new"
    /\ last.args.schema_path.t = "some" => last.args.schema_path.x.t = "schema"
    /\ last.args.path_override # "notdir"
    /\ C12_FileExists =>
          /\ last.args.can_open
          /\ from_reader(last.preFile.text).t # "err"

\* C12: the outcome of new is decided by whether the config file exists and
\* whether a schema is given: file and no schema, or file that satisfies the
\* schema, give a Store holding the parsed file; file that violates the
\* schema, or no file with a schema, give a Store holding the schema default;
\* no file and no schema give InitError and no Store
C12_NewOutcome ==
    C12_Usable =>
        LET given == last.args.schema_path.t = "some"
            parsed == from_reader(last.preFile.text)
            holds(config) == /\ last.result = "Ok"
                             /\ Self.state = "Ready"
                             /\ Self.config = config
        IN  IF C12_FileExists
            THEN IF given
                 THEN IF IsValid(last.args.schema_path.x.s, parsed)
                      THEN holds(parsed)
                      ELSE holds(default_config(last.args.schema_path.x.s))
                 ELSE holds(parsed)
            ELSE IF given
                 THEN holds(default_config(last.args.schema_path.x.s))
                 ELSE /\ last.result = "InitError"
                      /\ Self.state # "Ready"

\* new has found a config file the test schema rejects and holds the default
C12_Witness ==
    /\ C12_Usable
    /\ C12_FileExists
    /\ last.args.schema_path = Some([t |-> "schema", s |-> SchemaTest])
    /\ ~IsValid(SchemaTest, from_reader(last.preFile.text))
    /\ last.result = "Ok"
    /\ Self.config = default_config(SchemaTest)
    /\ Self.config # from_reader(last.preFile.text)

\* C13: new returns InitError and constructs no Store when the schema file
\* cannot be opened, parsed or compiled, or when the existing config file
\* cannot be opened or is no JSON
C13_NewReportsInitError ==
    (/\ last.op = "new"
     /\ \/ /\ last.args.schema_path.t = "some"
           /\ last.args.schema_path.x.t \in {"unopenable", "malformed", "uncompilable"}
        \/ /\ C12_FileExists
           /\ \/ ~last.args.can_open
              \/ from_reader(last.preFile.text).t = "err")
    => /\ last.result = "InitError"
       /\ Self.state # "Ready"

\* C14: when set(p, v) has returned Ok, the same set(p, v) made again
\* returns Ok and leaves the tree and the content of the file as they were
\* after the first call
C14_SetIdempotent ==
    (/\ last.op = "set"
     /\ last.result = "Ok")
    => LET again == set(Self, file, last.keys, last.value)
       IN  /\ again.result = "Ok"
           /\ again.self = Self
           /\ again.file = file

\* a set has returned Ok after changing the tree and the file
C14_Witness ==
    /\ last.op = "set"
    /\ last.result = "Ok"
    /\ Self.config # Pre.config
    /\ get(Self, last.keys).ret = last.value
    /\ file # last.preFile
    /\ file.exists

\* the schema file a Store's compiled schema came from
C15_SchemaPath ==
    IF Self.schema.t = "some" THEN Some([t |-> "schema", s |-> Self.schema.x])
    ELSE None

\* C15: after a set or a delete has returned Ok and written the tree, new on
\* the same file with the same schema gives a Store whose tree equals the
\* tree of the Store that wrote
C15_RoundTrip ==
    (/\ last.op \in {"set", "delete"}
     /\ last.result = "Ok")
    => LET reloaded == new(file, C15_SchemaPath, "dir", TRUE, TRUE)
       IN  /\ reloaded.result = "Ok"
           /\ reloaded.self.state = "Ready"
           /\ reloaded.self.config = Self.config

\* a set under the test schema has written a tree with a member of two
\* digits, a nested object and a changed value
C15_Witness ==
    /\ last.op = "set"
    /\ last.result = "Ok"
    /\ Self.schema = Some(SchemaTest)
    /\ Self.config # Pre.config
    /\ RefAt(Self.config, <<"a", "i">>) = {Num(10)}
    /\ file = FileOf(to_string_pretty(Self.config))

\* a segment of the path is looked up in a value that is no object: the
\* root, or the value an earlier part of the path addresses
C16_ThroughNonObject ==
    \E k \in 0 .. (Len(Segs) - 1) :
        \E node \in RefAt(Pre.config, SubSeq(Segs, 1, k)) : node.t # "obj"

\* C16: get, set and delete on a path that goes through a value that is no
\* object return InvalidKey and do not crash, delete with a final segment
\* whose parent, or the root, is no object included
C16_NonObjectIsInvalidKey ==
    (/\ last.op \in {"get", "set", "delete"}
     /\ C16_ThroughNonObject)
    => last.result = "InvalidKey"

\* the path is empty or has an empty segment
C17_EmptySegment == \E i \in 1 .. Len(Segs) : Segs[i] = <<>>

\* C17: on an empty path or a path with an empty segment, whatever the
\* tree, get, set and delete return InvalidKey and has returns false
C17_EmptySegmentIsInvalidKey ==
    C17_EmptySegment =>
        /\ last.op \in {"get", "set", "delete"} => last.result = "InvalidKey"
        /\ last.op = "has" => ~last.found

\* C18: a set or a delete that returns InvalidKey, InvalidSet or
\* InvalidDelete writes nothing: the file is what it was before the call
C18_ErrorWritesNothing ==
    (/\ last.op \in {"set", "delete"}
     /\ last.result \in {"InvalidKey", "InvalidSet", "InvalidDelete"})
    => file = last.preFile

\* a set the schema rejected has left alone a file that holds another text
\* than the serialization of the Store's tree
C18_Witness ==
    /\ last.op = "set"
    /\ last.result = "InvalidSet"
    /\ last.preFile.exists
    /\ file = last.preFile
    /\ file # FileOf(to_string_pretty(Self.config))

\* C19: with two Stores on one file and no locking, after any interleaving
\* of their set and delete calls the file holds the tree of the Store whose
\* set or delete returned Ok last, whole and unmerged
C19_LastWriterWins ==
    writer # 0 => file = FileOf(to_string_pretty(store[writer].config))

\* the second Store has overwritten the file the first Store had written:
\* the first Store's committed change is in its tree and not in the file
C19_Witness ==
    /\ last.op \in {"set", "delete"}
    /\ last.inst = 2
    /\ last.result = "Ok"
    /\ writer = 2
    /\ store[1].schema.t = "some"
    /\ last.preFile = FileOf(to_string_pretty(store[1].config))
    /\ store[1].config # TreeValid
    /\ store[1].config # store[2].config
    /\ file # last.preFile
    /\ from_reader(file.text) = store[2].config

\* segments a are the first segments of b
C20_IsPrefix(a, b) == Len(a) <= Len(b) /\ SubSeq(b, 1, Len(a)) = a

\* the paths that are neither a prefix nor an extension of the path of the
\* call in last
C20_OtherPaths ==
    {q \in PathSet : /\ ~C20_IsPrefix(Split(q), Segs)
                     /\ ~C20_IsPrefix(Segs, Split(q))}

\* C20: a set(p, v) or delete(p) that returns Ok changes the subtree at p
\* only: get(q) and has(q) return after the call what they returned before
\* it, for every path q that is neither a prefix nor an extension of p
C20_OnlySubtreeChanges ==
    (/\ last.op \in {"set", "delete"}
     /\ last.result = "Ok")
    => \A q \in C20_OtherPaths :
           /\ get(Self, q) = get(Pre, q)
           /\ has(Self, q) = has(Pre, q)

\* a set or a delete has changed the tree while a path beside its own
\* resolves, before and after
C20_Witness ==
    /\ last.op \in {"set", "delete"}
    /\ last.result = "Ok"
    /\ Self.config # Pre.config
    /\ \E q \in C20_OtherPaths :
           /\ has(Pre, q)
           /\ get(Self, q).result = "Ok"
           /\ Len(Split(q)) = 2

====
